---------------------------- MODULE Spec2Model ----------------------------
(***************************************************************************)
(* Model of the vector-addition demo: the OpenCL host program              *)
(* (src/vector_add_opencl.cpp), the OpenMP program (src/unnamed/part_000)  *)
(* and the print helper both programs share.                               *)
(*                                                                         *)
(* Four specifications:                                                    *)
(*   Spec       the OpenCL host program, one action per OpenCL call, with  *)
(*              the device running the work items concurrently;            *)
(*   SpecOMP    vector_add_openmp, one action per memory access of each    *)
(*              thread of the team;                                        *)
(*   SpecPrint  print(A, size), one action per printf;                     *)
(*   SpecBoth   the OpenMP program, then the OpenCL program, on one input. *)
(***************************************************************************)
EXTENDS Integers, Sequences, FiniteSets, TLC

(***************************************************************************)
(* Bounds of the model.                                                    *)
(***************************************************************************)
MaxN == 2            \* vector lengths 1..MaxN in Spec and SpecOMP
MaxFaults == 1       \* API calls the environment lets fail in one run
MaxThreads == 2      \* OpenMP team sizes 1..MaxThreads
MaxPrintSize == 17   \* print is called with sizes 0..MaxPrintSize

(***************************************************************************)
(* Program constants.                                                      *)
(***************************************************************************)
RAND_MOD == 100                  \* init: A[i] = rand() % 100
PRINT_LIMIT == 15                \* print: size > 15 truncates
PRINT_HEAD == 5                  \* print: first 5 elements
PRINT_TAIL == 5                  \* print: last 5 elements
\* Status codes of <CL/cl.h>; the program tests only their sign, and
\* CL_DEVICE_NOT_FOUND by name.
CL_SUCCESS == 0
CL_DEVICE_NOT_FOUND == -1
CL_OUT_OF_RESOURCES == -5
CL_BUILD_PROGRAM_FAILURE == -11
CL_INVALID_VALUE == -30

\* The values init() is sampled at: the ends of the range of rand() % 100.
Vals == {0, RAND_MOD - 1}
Sizes == 1..MaxN
Idx(n) == 0..(n - 1)
Vectors(n) == [Idx(n) -> Vals]
\* The contents init() leaves in v_out are sampled at the constant vectors.
StaleVectors(n) == {[i \in Idx(n) |-> x] : x \in Vals}

VARIABLES
  \* ---- OpenCL host program (globals of vector_add_opencl.cpp) ----
  pc,            \* the call main is about to make
  exitCode,      \* -1 while running, else the process's exit code
  SZ,            \* int SZ
  v1, v2, v_out, \* host arrays
  err,           \* int err
  device_id,     \* "none", "GPU" or "CPU"
  obj,           \* handle state of each OpenCL object: "null", "live", "released"
  mem,           \* contents of the three device buffers
  kargs,         \* kernel argument indices that are bound
  event,         \* cl_event event: "null", "queued", "complete", "error"
  itemsDone,     \* work items the device has executed
  stdout,        \* diagnostics written so far
  \* ---- environment of the OpenCL program ----
  hasGPU, hasCPU,\* what the first platform exposes
  buildLog,      \* the compiler's log for the kernel source
  faults,        \* failures injected so far
  \* ---- history of the OpenCL run ----
  gpuStatus,     \* what the GPU query returned (1 before the query)
  created,       \* objects in order of creation
  released,      \* objects in order of release
  failedCalls,   \* calls that returned a failure status
  callsAfterFail,\* calls issued after some call had failed
  badUse,        \* calls handed an object that is not live
  stages,        \* pipeline stages in the order they were entered
  readEarly,     \* the download read bufV_out with no completed kernel run
  \* ---- OpenMP program ----
  omp,           \* the call's arrays, the team's threads, the accesses made
  \* ---- print ----
  prt            \* print's arguments, its loop index and the text written

oclVars == <<pc, exitCode, SZ, v1, v2, v_out, err, device_id, obj, mem, kargs,
             event, itemsDone, stdout, hasGPU, hasCPU, buildLog, faults,
             gpuStatus, created, released, failedCalls, callsAfterFail,
             badUse, stages, readEarly>>
vars == <<oclVars, omp, prt>>

Objects == {"context", "program", "queue", "kernel", "bufV1", "bufV2", "bufV_out"}
Buffers == {"bufV1", "bufV2", "bufV_out"}
Uninit == -1         \* a device word nothing has written yet
\* Compiler logs: "" for a source that compiles, else the diagnostics.
BuildLogs == {"", "error: use of undeclared identifier", "error: expected ';'"}
\* free_memory's calls, in the order the code makes them.
ReleaseOrder == <<"bufV1", "bufV2", "bufV_out", "kernel", "queue", "program", "context">>
KernelArgs == 0..3

(***************************************************************************)
(* The OpenCL runtime, as the host program sees it.                        *)
(***************************************************************************)
Live(used) == \A o \in used : obj[o] = "live"
Injected == IF faults < MaxFaults THEN {CL_OUT_OF_RESOURCES} ELSE {}
\* Statuses a call on the objects `used` may return.
Outcomes(used) == IF Live(used) THEN {CL_SUCCESS} \cup Injected ELSE {CL_INVALID_VALUE}
\* Bookkeeping of one API call that returned `st`.
Issue(call, st, used) ==
  /\ failedCalls' = IF st < 0 THEN failedCalls \cup {call} ELSE failedCalls
  /\ callsAfterFail' = (callsAfterFail \/ failedCalls # {})
  /\ faults' = IF st = CL_OUT_OF_RESOURCES THEN faults + 1 ELSE faults
  /\ badUse' = IF Live(used) THEN badUse ELSE badUse \cup {call}
\* perror/printf of a diagnostic followed by exit(1).
Fatal(msg) ==
  /\ pc' = "exited"
  /\ exitCode' = 1
  /\ stdout' = Append(stdout, msg)
Enter(stage) == stages' = IF stage \in {stages[k] : k \in DOMAIN stages}
                          THEN stages ELSE Append(stages, stage)

hostVars == <<SZ, v1, v2, v_out>>
envVars == <<hasGPU, hasCPU, buildLog>>
devVars == <<mem, kargs, event, itemsDone>>
objVars == <<obj, created, released>>

(***************************************************************************)
(* create_device                                                           *)
(***************************************************************************)
\* The fallback test, and the same test taking any error for a missing GPU.
FallbackToCPUAny(e) == e < 0
FallbackToCPU(e) == e = CL_DEVICE_NOT_FOUND

GetPlatformIDs ==
  /\ pc = "clGetPlatformIDs"
  /\ \E st \in Outcomes({}) :
       /\ Issue("clGetPlatformIDs", st, {})
       /\ err' = st
       /\ IF st < 0
          THEN Fatal("Couldn't identify a platform")
          ELSE pc' = "clGetDeviceIDs_GPU" /\ UNCHANGED <<exitCode, stdout>>
  /\ Enter("acquire")
  /\ UNCHANGED <<hostVars, envVars, devVars, objVars, device_id, gpuStatus, readEarly, omp, prt>>

\* What clGetDeviceIDs returns for a device type the platform has or lacks.
DeviceQuery(has) == (IF has THEN {CL_SUCCESS} ELSE {CL_DEVICE_NOT_FOUND}) \cup Injected

GetDeviceIDsGPU ==
  /\ pc = "clGetDeviceIDs_GPU"
  /\ \E st \in DeviceQuery(hasGPU) :
       /\ err' = st
       /\ gpuStatus' = st
       /\ faults' = IF st = CL_OUT_OF_RESOURCES THEN faults + 1 ELSE faults
       /\ callsAfterFail' = (callsAfterFail \/ failedCalls # {})
       /\ IF FallbackToCPU(st)
          THEN /\ pc' = "clGetDeviceIDs_CPU"
               /\ stdout' = Append(stdout, "GPU not found, falling back to CPU")
               /\ UNCHANGED <<exitCode, device_id, failedCalls>>
          ELSE IF st < 0
          THEN /\ Fatal("Couldn't access any devices")
               /\ failedCalls' = failedCalls \cup {"clGetDeviceIDs_GPU"}
               /\ UNCHANGED device_id
          ELSE /\ pc' = "clCreateContext"
               /\ device_id' = "GPU"
               /\ UNCHANGED <<exitCode, stdout, failedCalls>>
  /\ UNCHANGED <<hostVars, envVars, devVars, objVars, badUse, stages, readEarly, omp, prt>>

GetDeviceIDsCPU ==
  /\ pc = "clGetDeviceIDs_CPU"
  /\ \E st \in DeviceQuery(hasCPU) :
       /\ Issue("clGetDeviceIDs_CPU", st, {})
       /\ err' = st
       /\ IF st < 0
          THEN Fatal("Couldn't access any devices") /\ UNCHANGED device_id
          ELSE /\ pc' = "clCreateContext"
               /\ device_id' = "CPU"
               /\ UNCHANGED <<exitCode, stdout>>
  /\ UNCHANGED <<hostVars, envVars, devVars, objVars, gpuStatus, stages, readEarly, omp, prt>>

(***************************************************************************)
(* Creation of an object whose errcode_ret is &err and is tested.          *)
(***************************************************************************)
CreateChecked(at, call, o, used, msg, next) ==
  /\ pc = at
  /\ \E st \in Outcomes(used) :
       /\ Issue(call, st, used)
       /\ err' = st
       /\ IF st < 0
          THEN Fatal(msg) /\ UNCHANGED objVars
          ELSE /\ pc' = next
               /\ obj' = [obj EXCEPT ![o] = "live"]
               /\ created' = Append(created, o)
               /\ UNCHANGED <<exitCode, stdout, released>>
  /\ UNCHANGED <<hostVars, envVars, devVars, device_id, gpuStatus, stages, readEarly, omp, prt>>

CreateContext ==
  CreateChecked("clCreateContext", "clCreateContext", "context", {},
                "Couldn't create a context", "fopen")


(***************************************************************************)
(* build_program                                                           *)
(***************************************************************************)
OpenKernelFile ==
  /\ pc = "fopen"
  /\ \E ok \in {TRUE} \cup {FALSE : x \in Injected} :
       /\ faults' = IF ok THEN faults ELSE faults + 1
       /\ IF ok
          THEN pc' = "clCreateProgramWithSource" /\ UNCHANGED <<exitCode, stdout>>
          ELSE Fatal("Couldn't find the program file")
  /\ Enter("build")
  /\ UNCHANGED <<hostVars, envVars, devVars, objVars, err, device_id, gpuStatus,
                 failedCalls, callsAfterFail, badUse, readEarly, omp, prt>>

CreateProgramWithSource ==
  CreateChecked("clCreateProgramWithSource", "clCreateProgramWithSource", "program",
                {"context"}, "Couldn't create the program", "clBuildProgram")

\* clBuildProgram's status: a source the compiler rejects fails to build.
BuildOutcomes ==
  IF buildLog # "" THEN {CL_BUILD_PROGRAM_FAILURE} ELSE {CL_SUCCESS} \cup Injected
\* The two clGetProgramBuildInfo(CL_PROGRAM_BUILD_LOG) calls: the size, then
\* the text, read into a buffer of that size.
GetProgramBuildLog == buildLog

\* The test of clBuildProgram's status, and the same test with the sign wrong.
BuildFailedIfPositive(e) == e > 0
BuildFailed(e) == e < 0

BuildProgram ==
  /\ pc = "clBuildProgram"
  /\ \E st \in BuildOutcomes :
       /\ Issue("clBuildProgram", st, {"program"})
       /\ err' = st
       /\ IF BuildFailed(st)
          THEN Fatal(GetProgramBuildLog)
          ELSE pc' = "clCreateCommandQueue" /\ UNCHANGED <<exitCode, stdout>>
  /\ UNCHANGED <<hostVars, envVars, devVars, objVars, device_id, gpuStatus, stages,
                 readEarly, omp, prt>>

(***************************************************************************)
(* setup_openCL_device_context_queue_kernel, after build_program           *)
(***************************************************************************)
CreateCommandQueue ==
  CreateChecked("clCreateCommandQueue", "clCreateCommandQueueWithProperties", "queue",
                {"context"}, "Couldn't create a command queue", "clCreateKernel")

CreateKernel ==
  CreateChecked("clCreateKernel", "clCreateKernel", "kernel",
                {"program"}, "Couldn't create a kernel", "clCreateBuffer_bufV1")

(***************************************************************************)
(* setup_kernel_memory: no status is read back (errcode_ret is NULL, the   *)
(* enqueue calls' return values are dropped).                              *)
(***************************************************************************)
CreateBuffer(b, next) ==
  /\ pc = "clCreateBuffer_" \o b
  /\ \E st \in Outcomes({"context"}) :
       /\ Issue("clCreateBuffer_" \o b, st, {"context"})
       /\ IF st < 0
          THEN UNCHANGED <<objVars, mem>>
          ELSE /\ obj' = [obj EXCEPT ![b] = "live"]
               /\ created' = Append(created, b)
               /\ mem' = [mem EXCEPT ![b] = [i \in Idx(SZ) |-> Uninit]]
               /\ UNCHANGED released
  /\ pc' = next
  /\ Enter("allocate")
  /\ UNCHANGED <<hostVars, envVars, kargs, event, itemsDone, err, exitCode, stdout,
                 device_id, gpuStatus, readEarly, omp, prt>>

CreateBufV1 == CreateBuffer("bufV1", "clCreateBuffer_bufV2")
CreateBufV2 == CreateBuffer("bufV2", "clCreateBuffer_bufV_out")
CreateBufVout == CreateBuffer("bufV_out", "clEnqueueWriteBuffer_bufV1")

\* Blocking write of a whole host array into a device buffer.
WriteBuffer(b, host, next) ==
  /\ pc = "clEnqueueWriteBuffer_" \o b
  /\ \E st \in Outcomes({"queue", b}) :
       /\ Issue("clEnqueueWriteBuffer_" \o b, st, {"queue", b})
       /\ mem' = IF st < 0 THEN mem ELSE [mem EXCEPT ![b] = host]
  /\ pc' = next
  /\ Enter("upload")
  /\ UNCHANGED <<hostVars, envVars, objVars, kargs, event, itemsDone, err, exitCode,
                 stdout, device_id, gpuStatus, readEarly, omp, prt>>

WriteV1 == WriteBuffer("bufV1", v1, "clEnqueueWriteBuffer_bufV2")
WriteV2 == WriteBuffer("bufV2", v2, "clSetKernelArg_0")

(***************************************************************************)
(* copy_kernel_args: four clSetKernelArg calls whose return values are     *)
(* dropped, then a test of err, which none of them assigns.  A buffer      *)
(* argument may be a NULL handle; the call needs only the kernel.          *)
(***************************************************************************)
SetKernelArg ==
  /\ \E a \in KernelArgs :
       /\ pc = "clSetKernelArg_" \o ToString(a)
       /\ \E st \in Outcomes({"kernel"}) :
            /\ Issue(pc, st, {"kernel"})
            /\ kargs' = IF st < 0 THEN kargs ELSE kargs \cup {a}
       /\ pc' = IF a = 3 THEN "copy_kernel_args_check"
                         ELSE "clSetKernelArg_" \o ToString(a + 1)
  /\ UNCHANGED <<hostVars, envVars, objVars, mem, event, itemsDone, err, exitCode,
                 stdout, device_id, gpuStatus, stages, readEarly, omp, prt>>

CheckKernelArgs ==
  /\ pc = "copy_kernel_args_check"
  /\ IF err < 0
     THEN Fatal("Couldn't set kernel arguments")
     ELSE pc' = "clEnqueueNDRangeKernel" /\ UNCHANGED <<exitCode, stdout>>
  /\ UNCHANGED <<hostVars, envVars, objVars, devVars, err, device_id, gpuStatus, faults,
                 failedCalls, callsAfterFail, badUse, stages, readEarly, omp, prt>>

(***************************************************************************)
(* The kernel vector_add_ocl(size, a, b, out) of vector_ops_ocl.cl, run by *)
(* the device once per work item gid.  A word read from a NULL or          *)
(* unwritten buffer has any value; a store through a NULL buffer is lost.  *)
(***************************************************************************)
DeviceWord(b, i) ==
  IF obj[b] = "live" /\ mem[b][i] # Uninit THEN {mem[b][i]} ELSE Vals
vector_add_ocl(gid, a, b) == a + b

RunWorkItem ==
  /\ event = "queued"
  /\ \E gid \in Idx(SZ) \ itemsDone :
       /\ itemsDone' = itemsDone \cup {gid}
       /\ \E a \in DeviceWord("bufV1", gid), b \in DeviceWord("bufV2", gid) :
            mem' = IF obj["bufV_out"] = "live"
                   THEN [mem EXCEPT !["bufV_out"][gid] = vector_add_ocl(gid, a, b)]
                   ELSE mem
       /\ event' = IF itemsDone' = Idx(SZ) THEN "complete" ELSE event
  /\ UNCHANGED <<pc, exitCode, hostVars, envVars, objVars, kargs, err, device_id,
                 stdout, faults, gpuStatus, failedCalls, callsAfterFail, badUse,
                 stages, readEarly, omp, prt>>

\* A work item that dereferences a NULL buffer may instead fault: the
\* command ends with an error status.
KernelFault ==
  /\ event = "queued"
  /\ \E b \in Buffers : obj[b] # "live"
  /\ event' = "error"
  /\ UNCHANGED <<pc, exitCode, hostVars, envVars, objVars, mem, kargs, itemsDone, err,
                 device_id, stdout, faults, gpuStatus, failedCalls, callsAfterFail,
                 badUse, stages, readEarly, omp, prt>>

(***************************************************************************)
(* main: dispatch, wait, download.  None of the three statuses is read.    *)
(***************************************************************************)
\* clEnqueueNDRangeKernel also fails when an argument was never bound.
EnqueueOutcomes ==
  IF kargs = KernelArgs THEN Outcomes({"queue", "kernel"}) ELSE {CL_INVALID_VALUE}

EnqueueNDRangeKernel ==
  /\ pc = "clEnqueueNDRangeKernel"
  /\ \E st \in EnqueueOutcomes :
       /\ Issue("clEnqueueNDRangeKernel", st, {"queue", "kernel"})
       /\ event' = IF st < 0 THEN event ELSE "queued"
  /\ pc' = "clWaitForEvents"
  /\ Enter("dispatch")
  /\ UNCHANGED <<hostVars, envVars, objVars, mem, kargs, itemsDone, err, exitCode,
                 stdout, device_id, gpuStatus, readEarly, omp, prt>>

\* clWaitForEvents returns once the event's command has ended; a NULL event
\* is refused at once, and a failing call returns without having waited.
WaitOutcomes ==
  IF event = "null" THEN {CL_INVALID_VALUE}
  ELSE (IF event = "complete" THEN {CL_SUCCESS} ELSE {})
       \cup (IF event = "error" THEN {CL_INVALID_VALUE} ELSE {})
       \cup Injected

WaitForEvents ==
  /\ pc = "clWaitForEvents"
  /\ \E st \in WaitOutcomes : Issue("clWaitForEvents", st, {})
  /\ pc' = "clEnqueueReadBuffer"
  /\ Enter("wait")
  /\ UNCHANGED <<hostVars, envVars, objVars, devVars, err, exitCode, stdout, device_id,
                 gpuStatus, readEarly, omp, prt>>

\* Blocking read on the in-order queue: it runs after the commands enqueued
\* before it have ended.
ReadBuffer ==
  /\ pc = "clEnqueueReadBuffer"
  /\ event # "queued"
  /\ \E st \in Outcomes({"queue", "bufV_out"}) :
       /\ Issue("clEnqueueReadBuffer", st, {"queue", "bufV_out"})
       /\ IF st < 0
          THEN UNCHANGED <<v_out, readEarly>>
          ELSE /\ \E g \in Vectors(SZ) :
                    v_out' = [i \in Idx(SZ) |->
                                IF mem["bufV_out"][i] = Uninit THEN g[i]
                                ELSE mem["bufV_out"][i]]
               /\ readEarly' = (event # "complete")
  /\ pc' = "clRelease_1"
  /\ Enter("download")
  /\ UNCHANGED <<SZ, v1, v2, envVars, objVars, devVars, err, exitCode, stdout,
                 device_id, gpuStatus, omp, prt>>

(***************************************************************************)
(* free_memory, then return 0                                              *)
(***************************************************************************)
Release ==
  /\ \E k \in DOMAIN ReleaseOrder :
       /\ pc = "clRelease_" \o ToString(k)
       /\ LET o == ReleaseOrder[k] IN
            /\ \E st \in Outcomes({o}) \ Injected : Issue(pc, st, {o})
            /\ IF obj[o] = "live"
               THEN /\ obj' = [obj EXCEPT ![o] = "released"]
                    /\ released' = Append(released, o)
               ELSE UNCHANGED <<obj, released>>
       /\ pc' = IF k = Len(ReleaseOrder) THEN "return" ELSE "clRelease_" \o ToString(k + 1)
  /\ Enter("release")
  /\ UNCHANGED <<hostVars, envVars, devVars, created, err, exitCode, stdout, device_id,
                 gpuStatus, readEarly, omp, prt>>

Return ==
  /\ pc = "return"
  /\ pc' = "exited"
  /\ exitCode' = 0
  /\ UNCHANGED <<hostVars, envVars, devVars, objVars, err, stdout, device_id, faults,
                 gpuStatus, failedCalls, callsAfterFail, badUse, stages, readEarly,
                 omp, prt>>

(***************************************************************************)
(* The OpenCL program: main after init() has filled the three host arrays. *)
(***************************************************************************)
OmpIdle == [pc |-> "off"]
PrtIdle == [pc |-> "off"]

InitOCL ==
  /\ pc = "clGetPlatformIDs"
  /\ exitCode = -1
  /\ SZ \in Sizes
  /\ v1 \in Vectors(SZ) /\ v2 \in Vectors(SZ) /\ v_out \in StaleVectors(SZ)
  /\ err = 0
  /\ device_id = "none"
  /\ obj = [o \in Objects |-> "null"]
  /\ mem = [b \in Buffers |-> [i \in Idx(SZ) |-> Uninit]]
  /\ kargs = {}
  /\ event = "null"
  /\ itemsDone = {}
  /\ stdout = <<>>
  /\ hasGPU \in BOOLEAN /\ hasCPU \in BOOLEAN
  /\ buildLog \in BuildLogs
  /\ faults = 0
  /\ gpuStatus = 1
  /\ created = <<>> /\ released = <<>>
  /\ failedCalls = {}
  /\ callsAfterFail = FALSE
  /\ badUse = {}
  /\ stages = <<>>
  /\ readEarly = FALSE

Init ==
  /\ InitOCL
  /\ omp = OmpIdle
  /\ prt = PrtIdle

Next ==
  \/ GetPlatformIDs \/ GetDeviceIDsGPU \/ GetDeviceIDsCPU
  \/ CreateContext \/ OpenKernelFile \/ CreateProgramWithSource \/ BuildProgram
  \/ CreateCommandQueue \/ CreateKernel
  \/ CreateBufV1 \/ CreateBufV2 \/ CreateBufVout \/ WriteV1 \/ WriteV2
  \/ SetKernelArg \/ CheckKernelArgs
  \/ EnqueueNDRangeKernel \/ RunWorkItem \/ KernelFault \/ WaitForEvents \/ ReadBuffer
  \/ Release \/ Return

Spec == Init /\ [][Next]_vars

(***************************************************************************)
(* vector_add_openmp: the loop's iterations are handed to the threads of   *)
(* the team in any partition and any order; each thread executes one       *)
(* iteration at a time, one memory access per step; the region ends at     *)
(* the implicit barrier.                                                   *)
(***************************************************************************)
Threads(n) == 1..n
\* The subscripts of the loop body  v_out[i] = v1[i] + v2[i].
SrcIndex(i) == i
\* DstIndexFirst: the store going to element 0 whatever the iteration.
DstIndexFirst(i) == 0
DstIndex(i) == i
DstArray == "v_out"
SrcArrays == {"v1", "v2"}
ThreadIdle == [at |-> "idle", i |-> 0, loaded |-> {}, r |-> [a \in SrcArrays |-> 0]]

\* The call vector_add_openmp(a, b, c, n) entering its parallel region with
\* a team of nt threads.
OmpCall(n, nt, a, b, c) ==
  [pc |-> "parallel", size |-> n, nthreads |-> nt,
   in |-> [v1 |-> a, v2 |-> b],
   mem |-> [v1 |-> a, v2 |-> b, v_out |-> c],
   taken |-> {},
   th |-> [t \in Threads(nt) |-> ThreadIdle],
   acc |-> {}]

OmpInit ==
  \E n \in Sizes, nt \in Threads(MaxThreads) :
    \E a \in Vectors(n), b \in Vectors(n), c \in StaleVectors(n) :
      omp = OmpCall(n, nt, a, b, c)

\* The runtime hands iteration i (i < size, not handed out yet) to thread t.
OmpTake ==
  /\ omp.pc = "parallel"
  /\ \E t \in Threads(omp.nthreads), i \in Idx(omp.size) \ omp.taken :
       /\ omp.th[t].at = "idle"
       /\ omp' = [omp EXCEPT !.taken = @ \cup {i},
                             !.th[t] = [ThreadIdle EXCEPT !.at = "body", !.i = i]]
  /\ UNCHANGED oclVars /\ UNCHANGED prt

\* One operand of the sum is read; the two reads are unsequenced.
OmpLoad ==
  /\ omp.pc = "parallel"
  /\ \E t \in Threads(omp.nthreads), a \in SrcArrays :
       /\ omp.th[t].at = "body"
       /\ a \notin omp.th[t].loaded
       /\ LET i == omp.th[t].i
              k == SrcIndex(i)
          IN omp' = [omp EXCEPT !.th[t].loaded = @ \cup {a},
                                !.th[t].r[a] = omp.mem[a][k],
                                !.acc = @ \cup {[item |-> i, arr |-> a, idx |-> k,
                                                 kind |-> "read", by |-> t]}]
  /\ UNCHANGED oclVars /\ UNCHANGED prt

\* The sum is stored and the iteration ends.
OmpStore ==
  /\ omp.pc = "parallel"
  /\ \E t \in Threads(omp.nthreads) :
       /\ omp.th[t].at = "body"
       /\ omp.th[t].loaded = SrcArrays
       /\ LET i == omp.th[t].i
              k == DstIndex(i)
          IN omp' = [omp EXCEPT !.mem[DstArray][k] = omp.th[t].r["v1"] + omp.th[t].r["v2"],
                                !.th[t] = ThreadIdle,
                                !.acc = @ \cup {[item |-> i, arr |-> DstArray, idx |-> k,
                                                 kind |-> "write", by |-> t]}]
  /\ UNCHANGED oclVars /\ UNCHANGED prt

\* The implicit barrier at the end of the parallel region.
OmpJoin ==
  /\ omp.pc = "parallel"
  /\ omp.taken = Idx(omp.size)
  /\ \A t \in Threads(omp.nthreads) : omp.th[t].at = "idle"
  /\ omp' = [omp EXCEPT !.pc = "done"]
  /\ UNCHANGED oclVars /\ UNCHANGED prt

OmpNext == OmpTake \/ OmpLoad \/ OmpStore \/ OmpJoin

\* The OpenCL program at rest, for the specifications that do not run it.
OclIdle ==
  /\ pc = "off" /\ exitCode = -1 /\ SZ = 1
  /\ v1 = [i \in Idx(1) |-> 0] /\ v2 = [i \in Idx(1) |-> 0] /\ v_out = [i \in Idx(1) |-> 0]
  /\ err = 0 /\ device_id = "none"
  /\ obj = [o \in Objects |-> "null"]
  /\ mem = [b \in Buffers |-> [i \in Idx(1) |-> Uninit]]
  /\ kargs = {} /\ event = "null" /\ itemsDone = {} /\ stdout = <<>>
  /\ hasGPU = FALSE /\ hasCPU = FALSE /\ buildLog = "" /\ faults = 0
  /\ gpuStatus = 1 /\ created = <<>> /\ released = <<>> /\ failedCalls = {}
  /\ callsAfterFail = FALSE /\ badUse = {} /\ stages = <<>> /\ readEarly = FALSE

InitOMP ==
  /\ OclIdle
  /\ OmpInit
  /\ prt = PrtIdle

SpecOMP == InitOMP /\ [][OmpNext]_vars

(***************************************************************************)
(* print(A, size)                                                          *)
(***************************************************************************)
PRINT == 1
Fmt(x) == ToString(x) \o " "
Ellipsis == " ..... "
Footer == "\n----------------------------\n"
\* The arrays print is tried on: distinct elements of the range of init().
PrintArrays(n) == {[i \in Idx(n) |-> i], [i \in Idx(n) |-> RAND_MOD - 1 - i]}

\* The truncation test, and the same test off by one.
TruncatesFrom15(size) == PRINT = 1 /\ size >= PRINT_LIMIT
Truncates(size) == PRINT = 1 /\ size > PRINT_LIMIT

PrintInit ==
  \E n \in 0..MaxPrintSize : \E a \in PrintArrays(n) :
    prt = [pc |-> "enter", size |-> n, A |-> a, i |-> 0, out |-> <<>>]

PrintEnter ==
  /\ prt.pc = "enter"
  /\ prt' = IF PRINT = 0 THEN [prt EXCEPT !.pc = "done"]
            ELSE IF Truncates(prt.size) THEN [prt EXCEPT !.pc = "head", !.i = 0]
            ELSE [prt EXCEPT !.pc = "all", !.i = 0]
  /\ UNCHANGED oclVars /\ UNCHANGED omp

PrintHead ==
  /\ prt.pc = "head"
  /\ prt' = IF prt.i < PRINT_HEAD
            THEN [prt EXCEPT !.out = Append(@, Fmt(prt.A[prt.i])), !.i = @ + 1]
            ELSE [prt EXCEPT !.out = Append(@, Ellipsis), !.pc = "tail",
                             !.i = prt.size - PRINT_TAIL]
  /\ UNCHANGED oclVars /\ UNCHANGED omp

PrintTail ==
  /\ prt.pc = "tail"
  /\ prt' = IF prt.i < prt.size
            THEN [prt EXCEPT !.out = Append(@, Fmt(prt.A[prt.i])), !.i = @ + 1]
            ELSE [prt EXCEPT !.pc = "footer"]
  /\ UNCHANGED oclVars /\ UNCHANGED omp

PrintAll ==
  /\ prt.pc = "all"
  /\ prt' = IF prt.i < prt.size
            THEN [prt EXCEPT !.out = Append(@, Fmt(prt.A[prt.i])), !.i = @ + 1]
            ELSE [prt EXCEPT !.pc = "footer"]
  /\ UNCHANGED oclVars /\ UNCHANGED omp

PrintFooter ==
  /\ prt.pc = "footer"
  /\ prt' = [prt EXCEPT !.out = Append(@, Footer), !.pc = "done"]
  /\ UNCHANGED oclVars /\ UNCHANGED omp

PrintNext == PrintEnter \/ PrintHead \/ PrintTail \/ PrintAll \/ PrintFooter

InitPrint ==
  /\ OclIdle
  /\ omp = OmpIdle
  /\ PrintInit

SpecPrint == InitPrint /\ [][PrintNext]_vars

(***************************************************************************)
(* Both programs on the same input: the OpenMP program runs to its end,    *)
(* then the OpenCL program runs.                                           *)
(***************************************************************************)
InitBoth ==
  /\ InitOCL
  /\ \E nt \in Threads(MaxThreads) : omp = OmpCall(SZ, nt, v1, v2, v_out)
  /\ prt = PrtIdle

OmpPhase == omp.pc # "done" /\ OmpNext
OclPhase == omp.pc = "done" /\ Next

NextBoth == OmpPhase \/ OclPhase

SpecBoth == InitBoth /\ [][NextBoth]_vars

(***************************************************************************)
(* Properties                                                              *)
(***************************************************************************)
Range(s) == {s[k] : k \in DOMAIN s}
Pos(s, x) == CHOOSE k \in DOMAIN s : s[k] = x
IsPrefix(s, t) == Len(s) <= Len(t) /\ \A k \in DOMAIN s : s[k] = t[k]
Count(s, x) == Cardinality({k \in DOMAIN s : s[k] = x})
StageOrder == <<"acquire", "build", "allocate", "upload", "dispatch", "wait",
                "download", "release">>
AfterCreateDevice ==
  pc \notin {"clGetPlatformIDs", "clGetDeviceIDs_GPU", "clGetDeviceIDs_CPU"}
OmpDone == omp.pc = "done"
OclComputed == event = "complete" /\ "download" \in Range(stages)

\* C1 (OpenMP half): when vector_add_openmp returns, out[i] = a[i] + b[i] for
\* every i, whatever the team size and the schedule were.
C1_OpenMP_Sum ==
  OmpDone => \A i \in Idx(omp.size) : omp.mem.v_out[i] = omp.in.v1[i] + omp.in.v2[i]

\* C1: after the compute step has finished, out[i] = a[i] + b[i] for every i in
\* [0, N): in the OpenMP program when vector_add_openmp has returned, in the
\* OpenCL program when the kernel has completed and the download was made.
C1_SumCorrect ==
  /\ C1_OpenMP_Sum
  /\ OclComputed => \A i \in Idx(SZ) : v_out[i] = v1[i] + v2[i]

\* C2: on a successful run the objects are released in strict reverse of the
\* order of their creation: of any two, the one created later is released
\* earlier, and the context is released last.
C2_ReverseRelease ==
  (exitCode = 0 /\ failedCalls = {}) =>
     /\ \A i, j \in DOMAIN created :
          i < j => Pos(released, created[j]) < Pos(released, created[i])
     /\ released[Len(released)] = "context"

\* C3: a call that returns a failure status ends the process with exit code 1
\* at once: no call is made after a failed one, and exit code 0 is reached
\* only when no call has failed.
C3_FailFast ==
  /\ failedCalls # {} => exitCode = 1
  /\ ~callsAfterFail

\* C4: create_device returns the GPU whenever the platform has one, returns
\* the CPU only when the GPU query answered CL_DEVICE_NOT_FOUND, and exits
\* with code 1, returning nothing, when the platform has neither.
C4_DeviceSelection ==
  /\ (hasGPU /\ device_id # "none") => device_id = "GPU"
  /\ (AfterCreateDevice /\ gpuStatus = CL_SUCCESS) => device_id = "GPU"
  /\ device_id = "CPU" => (gpuStatus = CL_DEVICE_NOT_FOUND /\ ~hasGPU /\ hasCPU)
  /\ (~hasGPU /\ ~hasCPU) =>
        (device_id = "none" /\ (AfterCreateDevice => exitCode = 1 /\ pc = "exited"))
  /\ (AfterCreateDevice /\ exitCode # 1) => device_id # "none"

C4_Witness == hasGPU /\ hasCPU /\ device_id = "GPU" /\ pc = "clCreateContext"

C6_LinearOrder ==
  /\ IsPrefix(stages, StageOrder)
  /\ ~readEarly

\* C7: in the parallel loop, work item i reads only a[i] and b[i] and writes
\* only out[i]; no element of out is written by two work items, no work item
\* reads an element another one writes, and a and b are unchanged.
C7_Independent ==
  /\ \A x \in omp.acc :
       /\ x.idx = x.item
       /\ x.kind = "read" => x.arr \in {"v1", "v2"}
       /\ x.kind = "write" => x.arr = "v_out"
  /\ \A x, y \in omp.acc :
       (x.kind = "write" /\ x.arr = y.arr /\ x.idx = y.idx) => x.item = y.item
  /\ omp.mem.v1 = omp.in.v1 /\ omp.mem.v2 = omp.in.v2

C7_Witness ==
  /\ OmpDone /\ omp.size >= 2
  /\ Cardinality({x \in omp.acc : x.kind = "write"}) = omp.size
  /\ \E x, y \in omp.acc : x.kind = "write" /\ y.kind = "write" /\ x.by # y.by

\* C8: on the same N, a and b, the output the OpenCL program downloads is
\* element for element the output vector_add_openmp produces.
C8_SameOutput ==
  (OmpDone /\ OclComputed) => \A i \in Idx(SZ) : v_out[i] = omp.mem.v_out[i]

\* C9: print shows A[0..size-1] in order when size <= 15; when size > 15 it
\* shows A[0..4], the ellipsis marker, then A[size-5..size-1], and nothing
\* else.
PrintedElements ==
  IF prt.size <= 15
  THEN [k \in 1..prt.size |-> Fmt(prt.A[k - 1])]
  ELSE [k \in 1..5 |-> Fmt(prt.A[k - 1])] \o <<" ..... ">>
       \o [k \in 1..5 |-> Fmt(prt.A[prt.size - 5 + k - 1])]
C9_PrintShape ==
  prt.pc = "done" => prt.out = PrintedElements \o <<Footer>>

C9_Witness == prt.pc = "done" /\ prt.size = 16 /\ Len(prt.out) = 12

\* C10: a run that ends with exit code 0 has created each of the seven
\* objects exactly once and released each exactly once, and has handed no
\* call an object that was not live; a run that ends with a fatal exit has
\* released nothing.
C10_Lifecycle ==
  /\ exitCode = 0 =>
       /\ \A o \in Objects : Count(created, o) = 1 /\ Count(released, o) = 1
       /\ badUse = {}
  /\ exitCode = 1 => released = <<>>

(***************************************************************************)
(* The runs in which no call returns a failure status.  C1, C6, C8 and C10 *)
(* hold of them: the runs that violate those claims are the runs in which  *)
(* a status is dropped (C3).                                               *)
(***************************************************************************)
\* C1, C8 on the runs without a failed call: the downloaded output is the
\* element-wise sum, and is the output of vector_add_openmp.
OnSuccess_C1_C8_Output ==
  (failedCalls = {} /\ OmpDone /\ OclComputed) =>
     \A i \in Idx(SZ) : v_out[i] = v1[i] + v2[i] /\ v_out[i] = omp.mem.v_out[i]

\* C6 on the runs without a failed call: the download follows the kernel's
\* completion.
OnSuccess_C6_Order == failedCalls = {} => C6_LinearOrder

\* C10 on the runs without a failed call: every object is created once,
\* released once, and used only while live.
OnSuccess_C10_Lifecycle == failedCalls = {} => C10_Lifecycle

\* C2, as the code has it: the three buffers are released first, in the
\* order of their creation, then the kernel, the queue, the program and the
\* context in reverse order of creation.
OnSuccess_C2_ReleaseOrder ==
  (exitCode = 0 /\ failedCalls = {}) =>
     /\ created = <<"context", "program", "queue", "kernel", "bufV1", "bufV2", "bufV_out">>
     /\ released = <<"bufV1", "bufV2", "bufV_out", "kernel", "queue", "program", "context">>
=============================================================================
